---- MODULE Spec2Model ----
(***************************************************************************)
(* A model of the two scripts of the repository.                           *)
(*                                                                         *)
(*   fetch.py    walks a date range month by month, issues one GET per     *)
(*               sampled date and writes the accumulated records to a CSV. *)
(*   project.py  the dashboard: validates the inputs of an interaction,    *)
(*               filters and aggregates the loaded table, looks up the     *)
(*               maxima and renders.                                       *)
(*                                                                         *)
(* A calendar date is a triple <<year, month, day>>.                       *)
(***************************************************************************)
EXTENDS Integers, Sequences, FiniteSets, TLC

(***************************************************************************)
(* Bounds of the model.                                                    *)
(***************************************************************************)
\* the fetcher's range spans at most MaxSpan calendar months
MaxSpan == 4
\* a 200 response carries at most MaxRecs records
MaxRecs == 1
\* the loaded table has at most MaxRows rows
MaxRows == 2

(***************************************************************************)
(* Calendar dates (datetime.date).                                         *)
(***************************************************************************)
Year(d) == d[1]
Month(d) == d[2]
Day(d) == d[3]

\* date.__lt__ / date.__le__: chronological order
DateLT(a, b) ==
    \/ Year(a) < Year(b)
    \/ Year(a) = Year(b) /\ Month(a) < Month(b)
    \/ Year(a) = Year(b) /\ Month(a) = Month(b) /\ Day(a) < Day(b)

DateLE(a, b) == a = b \/ DateLT(a, b)

IsLeap(y) == (y % 4 = 0 /\ y % 100 # 0) \/ y % 400 = 0

DaysInMonth(y, m) ==
    IF m = 2 THEN (IF IsLeap(y) THEN 29 ELSE 28)
    ELSE IF m \in {4, 6, 9, 11} THEN 30 ELSE 31

RECURSIVE DaysBeforeMonth(_, _)
DaysBeforeMonth(y, m) ==
    IF m = 1 THEN 0 ELSE DaysBeforeMonth(y, m - 1) + DaysInMonth(y, m - 1)

\* days in the years before year y (proleptic Gregorian, as date.toordinal)
DaysBeforeYear(y) ==
    (y - 1) * 365 + ((y - 1) \div 4) - ((y - 1) \div 100) + ((y - 1) \div 400)

\* date.toordinal()
ToOrdinal(d) == DaysBeforeYear(Year(d)) + DaysBeforeMonth(Year(d), Month(d)) + Day(d)

\* (a - b).days
DaysBetween(a, b) == ToOrdinal(a) - ToOrdinal(b)

\* the calendar month of a date, counted in months
MonthIdx(d) == Year(d) * 12 + (Month(d) - 1)

\* strftime("%Y-%m-%d"): the date as a string of ten characters
Digit(n) == CASE n = 0 -> "0" [] n = 1 -> "1" [] n = 2 -> "2" [] n = 3 -> "3"
              [] n = 4 -> "4" [] n = 5 -> "5" [] n = 6 -> "6" [] n = 7 -> "7"
              [] n = 8 -> "8" [] n = 9 -> "9"

Pad2(n) == <<Digit((n \div 10) % 10), Digit(n % 10)>>

Pad4(n) == <<Digit((n \div 1000) % 10), Digit((n \div 100) % 10)>> \o Pad2(n)

strftime(d) == Pad4(Year(d)) \o <<"-">> \o Pad2(Month(d)) \o <<"-">> \o Pad2(Day(d))

(***************************************************************************)
(* fetch.py                                                                *)
(***************************************************************************)
VARIABLES
    start_date,     \* fetch.py: first date of the range
    end_date,       \* fetch.py: last date of the range
    current_date,   \* fetch.py: the loop variable
    all_data,       \* fetch.py: the accumulator
    sampled,        \* the dates the loop has visited ("Fetching data for ...")
    requests,       \* the GET requests issued so far (the date string of each)
    responses,      \* the answer to each request: its status and its data array
    fpc,            \* "loop", "done" (CSV saved) or "aborted" (uncaught exception)
    csv,            \* the file covid_data_monthly.csv as this run leaves it
    csv_writes      \* the number of writes to the file by this run

fvars == <<start_date, end_date, current_date, all_data, sampled, requests,
           responses, fpc, csv, csv_writes>>

\* the file as a run that has not written it leaves it
NoFile == [written |-> FALSE, rows |-> <<>>]

\* DataFrame(all_data).to_csv(...): one row per record
to_csv(data) == [written |-> TRUE, rows |-> data]

\* the year of the range's start
FirstYear == 2020

\* days of the month the range may start or end on
RangeDays == {1, 9}

StartDates == {<<FirstYear, m, d>> : m \in 1..12, d \in RangeDays}

EndDates == {<<y, m, d>> : y \in {FirstYear - 1, FirstYear, FirstYear + 1},
                           m \in 1..12, d \in RangeDays}

\* the status codes other than 200 that the endpoint answers
FailureStatus == {404}

\* advance to the first day of the next month, keeping the year in December
NextMonthSameYear(d) ==
    IF Month(d) = 12 THEN <<Year(d), 1, 1>> ELSE <<Year(d), Month(d) + 1, 1>>

\* advance by one month, keeping the day of the month
NextMonthKeepDay(d) ==
    IF Month(d) = 12 THEN <<Year(d) + 1, 1, Day(d)>> ELSE <<Year(d), Month(d) + 1, Day(d)>>

\* "Move to the first day of the next month"
NextMonth(d) ==
    IF Month(d) = 12 THEN <<Year(d) + 1, 1, 1>> ELSE <<Year(d), Month(d) + 1, 1>>

\* the `data` array of a 200 response for a date: n records of that date
ResponseData(d, n) == [k \in 1..n |-> [date |-> d, rec |-> k]]

FetchInit ==
    /\ start_date \in StartDates
    /\ end_date \in {e \in EndDates :
                       MonthIdx(e) - MonthIdx(start_date) \in (0 - 1)..(MaxSpan - 1)}
    /\ current_date = start_date
    /\ all_data = <<>>
    /\ sampled = <<>>
    /\ requests = <<>>
    /\ responses = <<>>
    /\ fpc = "loop"
    /\ csv = NoFile
    /\ csv_writes = 0

\* one iteration: the request is answered 200 with n records
FetchOk ==
    /\ fpc = "loop"
    /\ DateLE(current_date, end_date)
    /\ \E n \in 0..MaxRecs :
          LET data == ResponseData(current_date, n)
          IN  /\ responses' = Append(responses, [status |-> 200, data |-> data])
              /\ all_data' = IF data # <<>> THEN all_data \o data ELSE all_data
    /\ sampled' = Append(sampled, current_date)
    /\ requests' = Append(requests, strftime(current_date))
    /\ current_date' = NextMonth(current_date)
    /\ UNCHANGED <<start_date, end_date, fpc, csv, csv_writes>>

\* one iteration where a failed request ends the loop
FetchFailedBreak ==
    /\ fpc = "loop"
    /\ DateLE(current_date, end_date)
    /\ \E s \in FailureStatus :
          responses' = Append(responses, [status |-> s, data |-> <<>>])
    /\ sampled' = Append(sampled, current_date)
    /\ requests' = Append(requests, strftime(current_date))
    /\ current_date' = NextMonth(end_date)
    /\ UNCHANGED <<start_date, end_date, all_data, fpc, csv, csv_writes>>

\* one iteration: the request is answered with another status; None is returned
FetchFailed ==
    /\ fpc = "loop"
    /\ DateLE(current_date, end_date)
    /\ \E s \in FailureStatus :
          responses' = Append(responses, [status |-> s, data |-> <<>>])
    /\ sampled' = Append(sampled, current_date)
    /\ requests' = Append(requests, strftime(current_date))
    /\ current_date' = NextMonth(current_date)
    /\ UNCHANGED <<start_date, end_date, all_data, fpc, csv, csv_writes>>

\* one iteration: requests.get or response.json raises; nothing catches it
FetchRaises ==
    /\ fpc = "loop"
    /\ DateLE(current_date, end_date)
    /\ sampled' = Append(sampled, current_date)
    /\ requests' = Append(requests, strftime(current_date))
    /\ fpc' = "aborted"
    /\ UNCHANGED <<start_date, end_date, current_date, all_data, responses,
                   csv, csv_writes>>

\* the table is saved without waiting for the loop to end
SaveCsvInLoop ==
    /\ fpc = "loop"
    /\ csv' = to_csv(all_data)
    /\ csv_writes' = csv_writes + 1
    /\ fpc' = "done"
    /\ UNCHANGED <<start_date, end_date, current_date, all_data, sampled,
                   requests, responses>>

\* the loop ends; the accumulator becomes a table, one row per record, and is saved
SaveCsv ==
    /\ fpc = "loop"
    /\ ~DateLE(current_date, end_date)
    /\ csv' = to_csv(all_data)
    /\ csv_writes' = csv_writes + 1
    /\ fpc' = "done"
    /\ UNCHANGED <<start_date, end_date, current_date, all_data, sampled,
                   requests, responses>>

(***************************************************************************)
(* Properties of fetch.py                                                  *)
(***************************************************************************)
\* the number of calendar months a range spans
SpannedMonths(s, e) == IF DateLE(s, e) THEN MonthIdx(e) - MonthIdx(s) + 1 ELSE 0

\* day 1 of the calendar month counted i
FirstOfMonth(i) == <<i \div 12, (i % 12) + 1, 1>>

\* the requests a range calls for: the start date, then day 1 of each later month
ExpectedRequests(s, e) ==
    [i \in 1..SpannedMonths(s, e) |->
        strftime(IF i = 1 THEN s ELSE FirstOfMonth(MonthIdx(s) + i - 1))]

\* C1: for a range with start <= end that spans N calendar months the loop issues
\* exactly N requests, the first for the literal start date and each later one for
\* day 1 of the following month up to the end date; after the N-th the loop's
\* condition is false, so the loop ends.
C1_ExactlyNRequests ==
    DateLE(start_date, end_date) =>
        LET expected == ExpectedRequests(start_date, end_date)
            N == SpannedMonths(start_date, end_date)
        IN  /\ Len(requests) <= N
            /\ requests = SubSeq(expected, 1, Len(requests))
            /\ fpc = "done" => requests = expected
            /\ (fpc = "loop" /\ Len(requests) = N) => ~DateLE(current_date, end_date)

\* the run over 2020-03-09 .. 2020-05-01 has ended after exactly three requests
C1_Witness ==
    /\ fpc = "done"
    /\ start_date = <<2020, 3, 9>>
    /\ end_date = <<2020, 5, 1>>
    /\ requests = << <<"2", "0", "2", "0", "-", "0", "3", "-", "0", "9">>,
                     <<"2", "0", "2", "0", "-", "0", "4", "-", "0", "1">>,
                     <<"2", "0", "2", "0", "-", "0", "5", "-", "0", "1">> >>

\* the records of the 200 responses, in the order of the requests
RECURSIVE RecordsOf200(_)
RecordsOf200(rs) ==
    IF rs = <<>> THEN <<>>
    ELSE (IF Head(rs).status = 200 THEN Head(rs).data ELSE <<>>) \o RecordsOf200(Tail(rs))

\* C3: a response other than 200 adds no record to the accumulator, its date is
\* not requested again, and the run goes on: the loop variable is then day 1 of
\* the next month, and the saved table holds the records of every 200 response.
C3_FailureSkipped ==
    /\ \A i \in 1..Len(responses) :
          responses[i].status # 200 =>
              \A k \in 1..Len(all_data) : all_data[k].date # sampled[i]
    /\ \A i, j \in 1..Len(requests) : i # j => requests[i] # requests[j]
    /\ (responses # <<>> /\ responses[Len(responses)].status # 200) =>
          /\ fpc # "aborted" => Len(sampled) = Len(responses)
          /\ Day(current_date) = 1
          /\ MonthIdx(current_date) = MonthIdx(sampled[Len(responses)]) + 1
    /\ \A i \in 1..Len(responses) :
          (responses[i].status # 200 /\ fpc = "done") =>
              Len(responses) = SpannedMonths(start_date, end_date)
    /\ fpc = "done" => csv.written /\ csv.rows = RecordsOf200(responses)

\* a run has ended in which a failed date is followed by a date whose records
\* are in the saved table
C3_Witness ==
    /\ fpc = "done"
    /\ csv.rows # <<>>
    /\ \E i, j \in 1..Len(responses) :
          /\ i < j
          /\ responses[i].status # 200
          /\ responses[j].status = 200
          /\ responses[j].data # <<>>

\* C4: the file is written exactly once, when every sampled date of the range has
\* been processed; a run that an exception aborts writes nothing.
C4_SingleFinalWrite ==
    /\ csv_writes \in {0, 1}
    /\ csv_writes = 1 <=> fpc = "done"
    /\ csv_writes = 0 <=> ~csv.written
    /\ fpc = "done" =>
          /\ ~DateLE(current_date, end_date)
          /\ Len(responses) = SpannedMonths(start_date, end_date)
          /\ csv.rows = all_data
    /\ fpc = "aborted" => ~csv.written /\ csv_writes = 0

\* a run aborted after records were accumulated has left no file
C4_Witness ==
    /\ fpc = "aborted"
    /\ all_data # <<>>
    /\ Len(requests) >= 2
    /\ ~csv.written

\* C8 as stated: the stepping starts at day 1 of the start month
C8_StartsAtDayOne ==
    sampled # <<>> => sampled[1] = <<Year(start_date), Month(start_date), 1>>

\* C8, amended: the stepping starts at the literal start date; each step goes to
\* day 1 of the next calendar month, from December to January of the next year;
\* the sampled dates strictly increase, and when the run ends every calendar
\* month of the range has been sampled exactly once.
C8_MonthlyStepping ==
    /\ sampled # <<>> => sampled[1] = start_date
    /\ \A i \in 2..Len(sampled) :
          /\ Day(sampled[i]) = 1
          /\ Month(sampled[i]) \in 1..12
          /\ MonthIdx(sampled[i]) = MonthIdx(sampled[i - 1]) + 1
          /\ Month(sampled[i - 1]) = 12 =>
                Month(sampled[i]) = 1 /\ Year(sampled[i]) = Year(sampled[i - 1]) + 1
          /\ DateLT(sampled[i - 1], sampled[i])
    /\ (fpc = "done" /\ DateLE(start_date, end_date)) =>
          \A mi \in MonthIdx(start_date)..MonthIdx(end_date) :
              Cardinality({i \in 1..Len(sampled) : MonthIdx(sampled[i]) = mi}) = 1

\* a run that started on day 9 of a month has ended after stepping from
\* December into January
C8_Witness ==
    /\ fpc = "done"
    /\ DateLE(start_date, end_date)
    /\ Day(start_date) = 9
    /\ \E i \in 1..Len(sampled) : Month(sampled[i]) = 12 /\ i < Len(sampled)

(***************************************************************************)
(* project.py                                                              *)
(***************************************************************************)
VARIABLES
    df,                  \* main: the loaded table, a sequence of rows
    selected_countries,  \* main: the value of the country multiselect
    ui_start_date,       \* main: start_date, the value of the first date picker
    ui_end_date,         \* main: end_date, the value of the second date picker
    dpc,                 \* "init" before the first run of main, then "idle"
    message,             \* the st.error / st.info message of the last run
    aggregated,          \* the last run called process_data
    processed,           \* what process_data returned in the last run
    aggregated_df,       \* main: aggregated_df after the fill of line 80
    metrics,             \* the three st.metric boxes of the last run
    rendered,            \* the map and the line charts of the last run are shown
    raised               \* the last run ended in an uncaught exception

dvars == <<df, selected_countries, ui_start_date, ui_end_date, dpc, message,
           aggregated, processed, aggregated_df, metrics, rendered, raised>>

vars == <<fvars, dvars>>

\* a missing value of a numeric column (NaN); a present value v is <<v>>
NaN == <<>>

\* the metric boxes before a run fills them
NoMetrics == [c \in {"confirmed", "deaths", "recovered"} |-> [value |-> 0, country |-> ""]]

min_date == <<2020, 3, 9>>
max_date == <<2023, 3, 9>>

\* the dates the pickers are set to
PickerDates == {min_date, <<2020, 3, 10>>, <<2020, 4, 1>>, <<2021, 3, 10>>, max_date}

\* the strings of the model in their lexicographic order
StringOrder == <<"Algeria", "BRA", "BRX", "Brazil", "DZA">>

\* str.__lt__
StrLT(a, b) ==
    \E i, j \in 1..Len(StringOrder) : StringOrder[i] = a /\ StringOrder[j] = b /\ i < j

\* the (name, iso) pairs of the region column
Regions == {<<"Algeria", "DZA">>, <<"Brazil", "BRA">>, <<"Brazil", "BRX">>}

\* the dates of the rows of the file: two of the fetcher's samples
RowDates == {strftime(<<2020, 3, 9>>), strftime(<<2020, 4, 1>>)}

\* the confirmed and deaths counts of a row
Counts == {[confirmed |-> 1, deaths |-> 1], [confirmed |-> 2, deaths |-> 0]}

\* the recovered count of a row: missing or present
RecoveredValues == {NaN, <<1>>}

Rows ==
    {[date |-> d, country |-> r[1], iso_alpha |-> r[2],
      confirmed |-> c.confirmed, deaths |-> c.deaths, recovered |-> v] :
        d \in RowDates, r \in Regions, c \in Counts, v \in RecoveredValues}

\* the tables load_data can return: a file without rows does not load
Tables == UNION {[1..n -> Rows] : n \in 1..MaxRows}

\* the value of a character that is a digit
DigitValue(c) == CASE c = "0" -> 0 [] c = "1" -> 1 [] c = "2" -> 2 [] c = "3" -> 3
                   [] c = "4" -> 4 [] c = "5" -> 5 [] c = "6" -> 6 [] c = "7" -> 7
                   [] c = "8" -> 8 [] c = "9" -> 9

\* pd.to_datetime(...).dt.date of a "YYYY-MM-DD" string
ParseDate(str) ==
    <<DigitValue(str[1]) * 1000 + DigitValue(str[2]) * 100
        + DigitValue(str[3]) * 10 + DigitValue(str[4]),
      DigitValue(str[6]) * 10 + DigitValue(str[7]),
      DigitValue(str[9]) * 10 + DigitValue(str[10])>>

\* df['country'].unique()
available_countries(t) == {t[i].country : i \in DOMAIN t}

\* the grouping key of a row
KeyOf(r) == <<r.date, r.country, r.iso_alpha>>

\* the order of the grouping keys: date, then country, then iso_alpha
KeyLT(a, b) ==
    \/ DateLT(a[1], b[1])
    \/ a[1] = b[1] /\ StrLT(a[2], b[2])
    \/ a[1] = b[1] /\ a[2] = b[2] /\ StrLT(a[3], b[3])

\* the keys of a group-by, sorted
RECURSIVE SortKeys(_)
SortKeys(S) ==
    IF S = {} THEN <<>>
    ELSE LET m == CHOOSE x \in S : \A y \in S : x = y \/ KeyLT(x, y)
         IN  <<m>> \o SortKeys(S \ {m})

\* 'sum' of a column without missing values
RECURSIVE SumOf(_, _)
SumOf(rows, col) ==
    IF rows = <<>> THEN 0 ELSE Head(rows)[col] + SumOf(Tail(rows), col)

\* 'sum' of a column with missing values: they are skipped, and the sum of
\* none is 0
RECURSIVE SumSkipNaN(_, _)
SumSkipNaN(rows, col) ==
    IF rows = <<>> THEN 0
    ELSE (IF Head(rows)[col] = NaN THEN 0 ELSE Head(rows)[col][1])
            + SumSkipNaN(Tail(rows), col)

\* groupby(['date', 'country', 'iso_alpha'], as_index=False).agg(sum ...)
GroupBySum(rows) ==
    LET keys == SortKeys({KeyOf(rows[i]) : i \in DOMAIN rows})
    IN  [k \in 1..Len(keys) |->
            LET group == SelectSeq(rows, LAMBDA r : KeyOf(r) = keys[k])
            IN  [date |-> keys[k][1], country |-> keys[k][2], iso_alpha |-> keys[k][3],
                 confirmed |-> SumOf(group, "confirmed"),
                 deaths |-> SumOf(group, "deaths"),
                 recovered |-> <<SumSkipNaN(group, "recovered")>>]]

\* df['date'] = pd.to_datetime(df['date']).dt.date
WithDates(t) == [i \in DOMAIN t |-> [t[i] EXCEPT !.date = ParseDate(@)]]

\* process_data where the end of the range is exclusive
process_data_EndExclusive(t, sel, s, e) ==
    LET inRange == SelectSeq(WithDates(t),
                             LAMBDA r : DateLE(s, r.date) /\ DateLT(r.date, e))
        ofCountries == SelectSeq(inRange, LAMBDA r : r.country \in sel)
    IN  GroupBySum(ofCountries)

\* process_data where 'recovered' is the sum of the deaths column
process_data_WrongColumn(t, sel, s, e) ==
    LET inRange == SelectSeq(WithDates(t),
                             LAMBDA r : DateLE(s, r.date) /\ DateLE(r.date, e))
        ofCountries == SelectSeq(inRange, LAMBDA r : r.country \in sel)
        g == GroupBySum(ofCountries)
    IN  [k \in DOMAIN g |-> [g[k] EXCEPT !.recovered = <<g[k].deaths>>]]

process_data(t, sel, s, e) ==
    LET inRange == SelectSeq(WithDates(t),
                             LAMBDA r : DateLE(s, r.date) /\ DateLE(r.date, e))
        ofCountries == SelectSeq(inRange, LAMBDA r : r.country \in sel)
    IN  GroupBySum(ofCountries)

\* aggregated_df['recovered'].fillna(0)
fillna(t) ==
    [k \in DOMAIN t |-> [t[k] EXCEPT !.recovered = IF @ = NaN THEN <<0>> ELSE @]]

\* the values of a column of the aggregated table
Column(t, col) ==
    [k \in DOMAIN t |-> IF col = "recovered" THEN t[k].recovered[1] ELSE t[k][col]]

\* Series.max()
max(vs) == CHOOSE v \in {vs[k] : k \in DOMAIN vs} : \A k \in DOMAIN vs : vs[k] <= v

\* the index of the last occurrence of the maximum
idxmax_Last(vs) ==
    CHOOSE k \in DOMAIN vs : vs[k] = max(vs) /\ \A j \in DOMAIN vs : vs[j] = max(vs) => j <= k

\* Series.idxmax(): the index of the first occurrence of the maximum
idxmax(vs) ==
    CHOOSE k \in DOMAIN vs : vs[k] = max(vs) /\ \A j \in DOMAIN vs : vs[j] = max(vs) => k <= j

\* the highest value of a column and the country of its row
Highest(t, col) ==
    [value |-> max(Column(t, col)), country |-> t[idxmax(Column(t, col))].country]

\* the range check accepts 366 days
RangeTooLong_366(s, e) == DaysBetween(e, s) > 366

\* (end_date - start_date).days > 365
RangeTooLong(s, e) == DaysBetween(e, s) > 365

\* the inputs <<selected_countries, start_date, end_date>> of a run of main:
\* the widgets' defaults in the first run, one widget changed in a later run
Inputs ==
    IF dpc = "init"
    THEN {<<selected_countries, ui_start_date, ui_end_date>>}
    ELSE {<<sel, ui_start_date, ui_end_date>> :
              sel \in (SUBSET available_countries(df)) \ {selected_countries}}
         \cup {<<selected_countries, s, ui_end_date>> :
                  s \in PickerDates \ {ui_start_date}}
         \cup {<<selected_countries, ui_start_date, e>> :
                  e \in PickerDates \ {ui_end_date}}

\* a run of main that returns with a message
Rejected(sel, s, e, msg) ==
    /\ selected_countries' = sel
    /\ ui_start_date' = s
    /\ ui_end_date' = e
    /\ dpc' = "idle"
    /\ message' = msg
    /\ aggregated' = FALSE
    /\ processed' = <<>>
    /\ aggregated_df' = <<>>
    /\ metrics' = NoMetrics
    /\ rendered' = FALSE
    /\ raised' = FALSE
    /\ UNCHANGED df

DashInit ==
    /\ df \in Tables
    /\ selected_countries = {df[1].country}
    /\ ui_start_date = min_date
    /\ ui_end_date = max_date
    /\ dpc = "init"
    /\ message = "none"
    /\ aggregated = FALSE
    /\ processed = <<>>
    /\ aggregated_df = <<>>
    /\ metrics = NoMetrics
    /\ rendered = FALSE
    /\ raised = FALSE

\* main, lines 64-66
MainRangeError ==
    \E in \in Inputs :
        /\ RangeTooLong(in[2], in[3])
        /\ Rejected(in[1], in[2], in[3],
                    "Error: The date range must be no more than one year.")

\* main, lines 68-70
MainOrderError ==
    \E in \in Inputs :
        /\ ~RangeTooLong(in[2], in[3])
        /\ DateLT(in[3], in[2])
        /\ Rejected(in[1], in[2], in[3], "Error: End date must be after start date.")

\* main, lines 72-74
MainNoCountry ==
    \E in \in Inputs :
        /\ ~RangeTooLong(in[2], in[3])
        /\ ~DateLT(in[3], in[2])
        /\ in[1] = {}
        /\ Rejected(in[1], in[2], in[3], "Please select at least one country.")

\* a run of main that passes the three checks and aggregates
Aggregated(sel, s, e, p) ==
    /\ selected_countries' = sel
    /\ ui_start_date' = s
    /\ ui_end_date' = e
    /\ dpc' = "idle"
    /\ message' = "none"
    /\ aggregated' = TRUE
    /\ processed' = p
    /\ aggregated_df' = fillna(p)
    /\ UNCHANGED df

\* main, lines 76-84 on an empty aggregated table: idxmax raises ValueError
MainRaises ==
    \E in \in Inputs :
        /\ ~RangeTooLong(in[2], in[3])
        /\ ~DateLT(in[3], in[2])
        /\ in[1] # {}
        /\ LET p == process_data(df, in[1], in[2], in[3])
           IN  /\ p = <<>>
               /\ Aggregated(in[1], in[2], in[3], p)
        /\ metrics' = NoMetrics
        /\ rendered' = FALSE
        /\ raised' = TRUE

\* main, lines 76-152: the metrics, the map and the three charts
MainRenders ==
    \E in \in Inputs :
        /\ ~RangeTooLong(in[2], in[3])
        /\ ~DateLT(in[3], in[2])
        /\ in[1] # {}
        /\ LET p == process_data(df, in[1], in[2], in[3])
           IN  /\ p # <<>>
               /\ Aggregated(in[1], in[2], in[3], p)
               /\ metrics' = [c \in {"confirmed", "deaths", "recovered"} |->
                                 Highest(fillna(p), c)]
        /\ rendered' = TRUE
        /\ raised' = FALSE

\* the dashboard is not running
DashOff ==
    /\ df = <<>>
    /\ selected_countries = {}
    /\ ui_start_date = min_date
    /\ ui_end_date = max_date
    /\ dpc = "off"
    /\ message = "none"
    /\ aggregated = FALSE
    /\ processed = <<>>
    /\ aggregated_df = <<>>
    /\ metrics = NoMetrics
    /\ rendered = FALSE
    /\ raised = FALSE

\* the fetcher is not running
FetchOff ==
    /\ start_date = min_date
    /\ end_date = max_date
    /\ current_date = min_date
    /\ all_data = <<>>
    /\ sampled = <<>>
    /\ requests = <<>>
    /\ responses = <<>>
    /\ fpc = "off"
    /\ csv = NoFile
    /\ csv_writes = 0

FetchStep ==
    \/ FetchOk /\ UNCHANGED dvars
    \/ FetchFailed /\ UNCHANGED dvars
    \/ FetchRaises /\ UNCHANGED dvars
    \/ SaveCsv /\ UNCHANGED dvars

DashStep ==
    \/ MainRangeError /\ UNCHANGED fvars
    \/ MainOrderError /\ UNCHANGED fvars
    \/ MainNoCountry /\ UNCHANGED fvars
    \/ MainRaises /\ UNCHANGED fvars
    \/ MainRenders /\ UNCHANGED fvars

\* a run of fetch.py
InitFetch == FetchInit /\ DashOff

SpecFetch == InitFetch /\ [][FetchStep]_vars

InitDash == DashInit /\ FetchOff

\* a session of the dashboard
SpecDash == InitDash /\ [][DashStep]_vars

(***************************************************************************)
(* Properties of project.py                                                *)
(***************************************************************************)
\* the three checks of main pass
ValidInputs(sel, s, e) == DaysBetween(e, s) <= 365 /\ DateLE(s, e) /\ sel # {}

\* C2: process_data and the rendering are reached only with a range of at most
\* 365 days, start <= end and a country selected; a run on other inputs shows a
\* message and returns without raising, having aggregated and rendered nothing.
C2_ValidationGates ==
    dpc = "idle" =>
        LET valid == ValidInputs(selected_countries, ui_start_date, ui_end_date)
        IN  /\ (aggregated \/ rendered) => valid
            /\ ~valid =>
                  /\ message # "none"
                  /\ ~raised
                  /\ ~aggregated
                  /\ ~rendered
                  /\ processed = <<>>
                  /\ aggregated_df = <<>>
                  /\ metrics = NoMetrics

\* a run on a range of 366 days with a country selected was rejected
C2_Witness ==
    /\ dpc = "idle"
    /\ DaysBetween(ui_end_date, ui_start_date) = 366
    /\ selected_countries # {}
    /\ message = "Error: The date range must be no more than one year."
    /\ ~aggregated

\* the rows of the loaded table that contribute to a row of the aggregated table
Contributing(t, a) == {i \in DOMAIN t : KeyOf(WithDates(t)[i]) = KeyOf(a)}

\* C5: after process_data and the fill every row of the aggregated table has a
\* recovered value that is present and not negative; it is 0 for a key whose
\* contributing rows all miss recovered.
C5_RecoveredPresent ==
    aggregated =>
        \A k \in DOMAIN aggregated_df :
            /\ aggregated_df[k].recovered # NaN
            /\ aggregated_df[k].recovered[1] >= 0
            /\ (\A i \in Contributing(df, aggregated_df[k]) : df[i].recovered = NaN)
                  => aggregated_df[k].recovered[1] = 0

\* the aggregated table has a key all of whose contributing rows miss recovered
C5_Witness ==
    /\ aggregated
    /\ \E k \in DOMAIN aggregated_df :
          /\ Cardinality(Contributing(df, aggregated_df[k])) >= 2
          /\ \A i \in Contributing(df, aggregated_df[k]) : df[i].recovered = NaN

\* group all rows first, then keep the keys in the range and of the countries
AggregateThenFilter(t, sel, s, e) ==
    SelectSeq(GroupBySum(WithDates(t)),
              LAMBDA a : DateLE(s, a.date) /\ DateLE(a.date, e) /\ a.country \in sel)

\* the rows of a table as a set
RowSet(t) == {t[k] : k \in DOMAIN t}

\* C6: grouping all rows and then keeping the keys with a date in the range and
\* a selected country gives the keys and the sums that process_data gives.
C6_FilterCommutes ==
    aggregated =>
        LET other == AggregateThenFilter(df, selected_countries, ui_start_date,
                                         ui_end_date)
        IN  /\ Len(processed) = Len(other)
            /\ RowSet(processed) = RowSet(other)

\* process_data returned some keys of the table and the filter has dropped others
C6_Witness ==
    /\ aggregated
    /\ processed # <<>>
    /\ Len(processed) < Len(GroupBySum(WithDates(df)))

\* the (date, country) pairs of the rows that pass the filter of process_data
FilteredPairs(t, sel, s, e) ==
    {<<WithDates(t)[i].date, t[i].country>> : i \in
        {j \in DOMAIN t : /\ DateLE(s, WithDates(t)[j].date)
                          /\ DateLE(WithDates(t)[j].date, e)
                          /\ t[j].country \in sel}}

\* C7: process_data returns exactly one row per (date, country) pair of the rows
\* in the range and of the selected countries, and no other row.
C7_OneRowPerDateCountry ==
    aggregated =>
        LET pairs == FilteredPairs(df, selected_countries, ui_start_date, ui_end_date)
        IN  /\ \A q \in pairs :
                  Cardinality({k \in DOMAIN processed :
                                  <<processed[k].date, processed[k].country>> = q}) = 1
            /\ \A k \in DOMAIN processed :
                  <<processed[k].date, processed[k].country>> \in pairs

\* the rows of the aggregated table that attain the maximum of a column
Attaining(t, col) ==
    {k \in DOMAIN t : \A j \in DOMAIN t : Column(t, col)[j] <= Column(t, col)[k]}

\* C9: each displayed value is the maximum of its column over the aggregated
\* table, and the displayed country is that of the row attaining it whose
\* grouping key (date, country, iso_alpha) is the least.
C9_MaximumAndFirstCountry ==
    rendered =>
        \A c \in {"confirmed", "deaths", "recovered"} :
            /\ \A k \in DOMAIN aggregated_df :
                  Column(aggregated_df, c)[k] <= metrics[c].value
            /\ \E k \in Attaining(aggregated_df, c) :
                  /\ metrics[c].value = Column(aggregated_df, c)[k]
                  /\ metrics[c].country = aggregated_df[k].country
                  /\ \A j \in Attaining(aggregated_df, c) \ {k} :
                        KeyLT(KeyOf(aggregated_df[k]), KeyOf(aggregated_df[j]))

\* the metrics are shown for a table where rows of two countries tie on the
\* maximum of confirmed
C9_Witness ==
    /\ rendered
    /\ \E j, k \in Attaining(aggregated_df, "confirmed") :
          aggregated_df[j].country # aggregated_df[k].country

\* C10: a run that passes the three checks has a table of at least one row for
\* the maximum lookup and finishes rendering without raising.
C10_ValidInputsRender ==
    (dpc = "idle" /\ ValidInputs(selected_countries, ui_start_date, ui_end_date)) =>
        /\ processed # <<>>
        /\ ~raised
        /\ rendered

====
